---- MODULE Spec2Model ----
(***************************************************************************)
(* Order lifecycle and market-data reconciliation of the Angel broker      *)
(* integration for backtrader.                                             *)
(*                                                                         *)
(*   SpecBroker : src/backtrader/brokers/angelbroker.py                    *)
(*                the strategy thread (buy/sell -> _place_order, cancel)   *)
(*                and the websocket thread (_handle_order_update).         *)
(*   SpecOMS    : src/backend/trading/angelbroker.py, oms.py,              *)
(*                angelstore.py: buy/sell -> execute_order with the        *)
(*                pre-trade checks and slippage control.                   *)
(*   SpecSubmit : the two submission paths above, either one running.      *)
(*   SpecFeed   : src/backtrader/feeds/angeldata.py, the tick-to-bar       *)
(*                aggregation of the live feed.                            *)
(*   SpecAB     : src/backtrader_angel/ABbroker.py, _submit and _cancel.   *)
(*   SpecCancel : the two brokers that take cancel requests, either one    *)
(*                running.                                                 *)
(*   SpecFeedIntervals : the feed at each configured compression.          *)
(*   SpecFeedTimeframes : the feed at each configured timeframe.           *)
(*   SpecThreads : the websocket thread in _update_fill and the strategy   *)
(*                thread in getvalue, statement by statement.              *)
(*   SpecStore  : src/angel_integration/store.py, the singleton session    *)
(*                store.                                                   *)
(*                                                                         *)
(* Prices and cash are integers (currency units); a position's average     *)
(* price is an exact fraction <<num, den>>.                                *)
(***************************************************************************)
EXTENDS Integers, Sequences, FiniteSets, TLC

(***************************************************************************)
(* Bounds of the model.                                                    *)
(***************************************************************************)
MaxOrders == 2
MaxFills == 2

(***************************************************************************)
(* Values.                                                                 *)
(***************************************************************************)
\* A missing fill quantity (Python None).
NoFill == 0

\* A missing price (Python None).
NoPrice == 0

\* dict.get on _broker_order_map finding no order (order refs start at 1).
NoRef == 0

\* _prepare_order_params returning None.
NoParams == [ordertype |-> ""]

\* The last order-update event was applied to an order.
NotDropped == [kind |-> "none", ref |-> 0]

\* The strategy thread is not inside smartapi.placeOrder.
Idle == [kind |-> "idle"]

\* Python None as a broker order id (dict.get finding none).
NoId == 0

\* An order id this process never received from placeOrder.
ForeignId == 99

Datas == {"SBIN"}

Prices == {10, 20}

\* The price the strategy gives its Limit and Stop orders.
LimitPrice == 10

\* Quantities a fill event reports.
Sizes == {1, 2}

\* Quantities the strategy orders.
OrderSizes == {2}

ExecTypes == {"Market", "Limit", "Stop"}

Terminal == {"Completed", "Rejected", "Canceled"}

startingcash == 100

Abs(x) == IF x < 0 THEN -x ELSE x

RECURSIVE GCD(_, _)
GCD(a, b) == IF b = 0 THEN a ELSE GCD(b, a % b)

\* The fraction n/d in lowest terms with a positive denominator.
Frac(n, d) ==
    LET g == GCD(Abs(n), Abs(d))
        s == IF d < 0 THEN -1 ELSE 1
    IN  IF n = 0 THEN <<0, 1>> ELSE <<(s * n) \div g, (s * d) \div g>>

FracEq(p, q) == p[1] * q[2] = q[1] * p[2]

\* m without key k.
MapDel(m, k) == [x \in (DOMAIN m) \ {k} |-> m[x]]

\* m with m[k] = v.
MapPut(m, k, v) == [x \in (DOMAIN m) \cup {k} |-> IF x = k THEN v ELSE m[x]]

VARIABLES
    orders,            \* ref -> the bt.Order created by buy/sell
    bt_order_map,      \* self._bt_order_map: order.ref -> broker order id
    broker_order_map,  \* self._broker_order_map: broker order id -> order (its ref)
    positions,         \* self.positions: data -> Position(size, price)
    cash,              \* self.cash
    inflight,          \* the placeOrder call the strategy thread is blocked in
    issued,            \* number of order ids the venue has handed out
    placeCalls,        \* ref -> number of smartapi.placeOrder calls made for it
    nfills,            \* fill events applied so far
    bought,            \* history: sum of size * price over the buy fills applied
    sold,              \* history: sum of size * price over the sell fills applied
    assigned,          \* history: ref -> the order id the venue answered placeOrder with
    dropped            \* history: why the last order-update event was dropped, or that
                       \* the handler raised on it

VARIABLES
    oms_cash,          \* backend AngelBroker.cash (store.get_cash() at start)
    oms_position,      \* backend AngelBroker.positions[data._name]['size']
    oms_instrument,    \* the Instrument row _get_instrument_details finds, if any
    active_orders,     \* OMS.active_orders
    oms_order,         \* the order the last buy/sell returned, with what was done for it
    last_completed     \* history: the side of the order that reached Completed last

VARIABLES
    current_bar,       \* AngelData._current_bar
    lines,             \* AngelData.lines.*[0]: the bar _push_bar wrote last
    pushed,            \* history: _push_bar calls made for the last tick
    window,            \* history: price and volume of each tick aggregated into _current_bar
    compression,       \* AngelData.p.compression: minutes per bar
    timeframe          \* AngelData.p.timeframe

VARIABLES
    ab_orders,         \* backtrader_angel AngelBroker.orders: order.ref -> order id
    ab_created,        \* the orders handed to _submit, with the status last notified
    ab_issued          \* number of order ids the venue has handed out

VARIABLES
    ws_pc,             \* websocket thread: where it is inside _update_fill
    ws_fill,           \* websocket thread: the fill _update_fill is applying
    st_pc,             \* strategy thread: where it is inside getvalue
    st_val,            \* strategy thread: getvalue's local val
    th_pos,            \* self.positions[data]: whether the key is set, and pos.size
    th_cash,           \* self.cash
    th_value,          \* self.value: what getvalue returned last
    th_fills           \* fills _update_fill has finished

VARIABLES
    singleton,         \* AngelStore._singleton: the instance, None when there is none
    smart_api,         \* self.smart_api of the instance
    connected,         \* self._connected
    expiring,          \* self._session_expiry_time - time.time() < 30 * 60
    stores,            \* AngelStore instances created so far
    sessions,          \* SmartConnect objects created so far
    logins,            \* history: sessions generate_session has established since
                       \* the last stop()
    instances,         \* history: the instances AngelStore() has returned since the
                       \* last stop()
    refresh_failed,    \* history: a token refresh has failed since the last stop()
    returned           \* history: how the last get_session() call ended

VARIABLE
    running            \* which of the components this process runs

omsVars == <<oms_cash, oms_position, oms_instrument, active_orders, oms_order,
            last_completed>>

feedVars == <<current_bar, lines, pushed, window, compression, timeframe>>

abVars == <<ab_orders, ab_created, ab_issued>>

thrVars == <<ws_pc, ws_fill, st_pc, st_val, th_pos, th_cash, th_value, th_fills>>

storeVars == <<singleton, smart_api, connected, expiring, stores, sessions, logins,
              instances, refresh_failed, returned>>

brokerVars == <<orders, bt_order_map, broker_order_map, positions, cash,
                inflight, issued, placeCalls, nfills, bought, sold, assigned, dropped>>

vars == <<running, brokerVars, omsVars, feedVars, abVars, thrVars, storeVars>>

(***************************************************************************)
(* bt.Order (backtrader/order.py, not part of the sources): status         *)
(* changes made by the order's own methods.                                *)
(***************************************************************************)
OrderSubmit(o) == [o EXCEPT !.status = "Submitted"]

\* A reject that leaves the order's status as it is.
OrderRejectKeep(o) == o

OrderReject(o) == [o EXCEPT !.status = "Rejected"]

OrderCancel(o) == [o EXCEPT !.status = "Canceled"]

\* order.execute(size, price): adds the size to the executed size; the order is
\* Completed when nothing remains, Partial otherwise.
OrderExecute(o, size) ==
    [o EXCEPT !.executed = o.executed + size,
              !.status = IF o.size - (o.executed + size) = 0
                         THEN "Completed" ELSE "Partial"]

(***************************************************************************)
(* AngelBroker._prepare_order_params                                       *)
(***************************************************************************)
PrepareOrderParams(isbuy, size, exectype, price) ==
    IF exectype = "Market"
    THEN [variety |-> "NORMAL", transactiontype |-> IF isbuy THEN "BUY" ELSE "SELL",
          ordertype |-> "MARKET", quantity |-> size, price |-> NoPrice]
    ELSE IF exectype = "Limit"
    THEN [variety |-> "NORMAL", transactiontype |-> IF isbuy THEN "BUY" ELSE "SELL",
          ordertype |-> "LIMIT", quantity |-> size, price |-> price]
    ELSE NoParams

(***************************************************************************)
(* AngelBroker._update_fill: the position and the cash after a fill.       *)
(***************************************************************************)
\* A fill that is applied to the position twice.
PositionAfterFillTwice(pos, isbuy, size, price) ==
    [size |-> IF isbuy THEN pos.size + 2 * size ELSE pos.size - 2 * size,
     price |-> pos.price]

PositionAfterFill(pos, isbuy, size, price) ==
    IF isbuy
    THEN LET newsize == pos.size + size
         IN  [size |-> newsize,
              price |-> IF newsize # 0
                        THEN Frac(pos.price[1] * (newsize - size) + price * size * pos.price[2],
                                  pos.price[2] * newsize)
                        ELSE <<price, 1>>]
    ELSE [size |-> pos.size - size, price |-> pos.price]

\* A fill that debits the cash whatever the side.
CashAfterFillDebit(c, isbuy, size, price) == c - size * price

CashAfterFill(c, isbuy, size, price) ==
    IF isbuy THEN c - size * price ELSE c + size * price

(***************************************************************************)
(* AngelBroker._cleanup_order                                              *)
(***************************************************************************)
\* A cleanup that overwrites the order's broker id instead of deleting it.
CleanupBtMapRebind(m, bt_ref) ==
    IF bt_ref \in DOMAIN m THEN [m EXCEPT ![bt_ref] = ForeignId] ELSE m

\* A cleanup that leaves the order's entry in _bt_order_map.
CleanupBtMapKeep(m, bt_ref) == m

CleanupBtMap(m, bt_ref) == IF bt_ref \in DOMAIN m THEN MapDel(m, bt_ref) ELSE m

\* A cleanup that leaves the broker id in the map.
CleanupBrokerMapKeep(m, broker_id) == m

\* A cleanup that forgets every tracked order.
CleanupBrokerMapAll(m, broker_id) == <<>>

CleanupBrokerMap(m, broker_id) ==
    IF broker_id \in DOMAIN m THEN MapDel(m, broker_id) ELSE m

\* _bt_order_map.get(ref): the broker id, None when the ref is absent.
BtMapGet(m, k) == IF k \in DOMAIN m THEN m[k] ELSE NoId

\* A lookup that falls back to some tracked order when the id is absent.
BrokerMapGetAny(m, k) ==
    IF k \in DOMAIN m THEN m[k]
    ELSE IF DOMAIN m # {} THEN m[CHOOSE x \in DOMAIN m : TRUE]
    ELSE NoRef

\* _broker_order_map.get(broker_id): the order, None when the id is absent.
BrokerMapGet(m, k) == IF k \in DOMAIN m THEN m[k] ELSE NoRef

(***************************************************************************)
(* Initial state: AngelBroker.__init__ and start().                        *)
(***************************************************************************)
BrokerStart ==
    /\ orders = <<>>
    /\ bt_order_map = <<>>
    /\ broker_order_map = <<>>
    /\ positions = [d \in Datas |-> [size |-> 0, price |-> <<0, 1>>]]
    /\ cash = startingcash
    /\ inflight = Idle
    /\ issued = 0
    /\ placeCalls = <<>>
    /\ nfills = 0
    /\ bought = 0
    /\ sold = 0
    /\ assigned = <<>>
    /\ dropped = NotDropped

(***************************************************************************)
(* buy / sell: create the order and enter _place_order.  An order with no  *)
(* payload is rejected at once; otherwise the strategy thread calls        *)
(* smartapi.placeOrder and blocks until the call ends.  The call raises    *)
(* ("raise"), answers with a false status ("failed"), answers with a true  *)
(* status but without data.orderid ("noid": the subscript raises inside    *)
(* the try), or answers with a true status and a fresh order id ("ok").    *)
(***************************************************************************)
Responses ==
    {[kind |-> "raise"], [kind |-> "failed"], [kind |-> "noid"], [kind |-> "ok"]}

PlaceCall(d, isbuy, size, exectype, price, resp) ==
    /\ running = "broker"
    /\ inflight = Idle
    /\ Len(orders) < MaxOrders
    /\ LET ref == Len(orders) + 1
           o == [data |-> d, isbuy |-> isbuy, size |-> size,
                 status |-> "Created", executed |-> 0]
           params == PrepareOrderParams(isbuy, size, exectype, price)
       IN  IF params = NoParams
           THEN /\ orders' = Append(orders, OrderReject(o))
                /\ placeCalls' = MapPut(placeCalls, ref, 0)
                /\ UNCHANGED <<inflight, issued, assigned>>
           ELSE /\ orders' = Append(orders, o)
                /\ placeCalls' = MapPut(placeCalls, ref, 1)
                /\ issued' = IF resp.kind = "ok" THEN issued + 1 ELSE issued
                /\ inflight' = [ref |-> ref, params |-> params, kind |-> resp.kind,
                                orderid |-> IF resp.kind = "ok" THEN issued + 1 ELSE NoId]
                /\ assigned' = IF resp.kind = "ok" THEN MapPut(assigned, ref, issued + 1)
                               ELSE assigned
    /\ UNCHANGED <<bt_order_map, broker_order_map, positions, cash, nfills, dropped>>
    /\ UNCHANGED <<bought, sold>>
    /\ UNCHANGED <<running, omsVars, feedVars, abVars, thrVars, storeVars>>

\* _place_order after smartapi.placeOrder has returned or raised.
PlaceReturn ==
    /\ running = "broker"
    /\ inflight # Idle
    /\ LET ref == inflight.ref
       IN  IF inflight.kind = "ok"
           THEN /\ orders' = [orders EXCEPT ![ref] = OrderSubmit(@)]
                /\ bt_order_map' = MapPut(bt_order_map, ref, inflight.orderid)
                /\ broker_order_map' = MapPut(broker_order_map, inflight.orderid, ref)
           ELSE /\ orders' = [orders EXCEPT ![ref] = OrderReject(@)]
                /\ UNCHANGED <<bt_order_map, broker_order_map>>
    /\ inflight' = Idle
    /\ UNCHANGED <<positions, cash, issued, placeCalls, nfills, assigned, dropped>>
    /\ UNCHANGED <<bought, sold>>
    /\ UNCHANGED <<running, omsVars, feedVars, abVars, thrVars, storeVars>>

(***************************************************************************)
(* AngelBroker.cancel: looks the broker id up and calls                    *)
(* smartapi.cancelOrder; the reply (success, failure status, exception) is *)
(* only printed.                                                           *)
(***************************************************************************)
CancelReplies == {"ok", "failed", "raise"}

\* No cancelOrder call was made, so there is no reply.
NoReply == "nocall"

\* cancel returns at `if not broker_id` before it calls cancelOrder when the
\* order has no entry in _bt_order_map.
CancelOutcomes(ref) ==
    IF BtMapGet(bt_order_map, ref) = NoId THEN {NoReply} ELSE CancelReplies

Cancel(ref, reply) ==
    /\ running = "broker"
    /\ inflight = Idle
    /\ ref \in 1..Len(orders)
    /\ reply \in CancelOutcomes(ref)
    /\ UNCHANGED <<orders, bt_order_map, broker_order_map, positions, cash,
                   inflight, issued, placeCalls, nfills, assigned, dropped>>
    /\ UNCHANGED <<bought, sold>>
    /\ UNCHANGED <<running, omsVars, feedVars, abVars, thrVars, storeVars>>

(***************************************************************************)
(* AngelBroker._handle_order_update, with _update_fill and _cleanup_order. *)
(* An event is {orderid, status, averageprice, filledshares}.              *)
(***************************************************************************)
\* The ids an event can carry: one the venue handed out, one of another
\* client's orders, or none at all (data.get('orderid') is None).
EventIds == (1..issued) \cup {ForeignId, NoId}

\* Why _handle_order_update finds no order for broker_id: the id belongs to an
\* order whose placeOrder call has not returned yet ("early"), to an order
\* already removed from the map ("stale"), or to no order of this process.
DropReason(broker_id) ==
    IF \E r \in DOMAIN assigned : assigned[r] = broker_id
    THEN LET r == CHOOSE x \in DOMAIN assigned :
                      /\ assigned[x] = broker_id
                      /\ \A y \in DOMAIN assigned : assigned[y] = broker_id => y <= x
         IN  IF inflight # Idle /\ inflight.ref = r
             THEN [kind |-> "early", ref |-> r]
             ELSE [kind |-> "stale", ref |-> r]
    ELSE [kind |-> "foreign", ref |-> 0]

EventStatuses == {"complete", "rejected", "cancelled", "open"}

\* The events <<status, filledshares, averageprice>> delivered under an id.
\* The handler reads the status and the fill fields only after it has found
\* the order, so for an id that is in no map entry one fill event and one
\* event without fill fields stand for all of them.
EventsFor(broker_id) ==
    IF broker_id \in DOMAIN broker_order_map
    THEN ({"complete"} \X Sizes \X Prices) \cup (EventStatuses \X {NoFill} \X {NoPrice})
    ELSE {<<"complete", 1, 10>>, <<"cancelled", NoFill, NoPrice>>}

UpdateFill(ref, size, price) ==
    LET o == orders[ref]
        pos == positions[o.data]
        executed == OrderExecute(o, size)
    IN  /\ positions' = [positions EXCEPT ![o.data] = PositionAfterFill(pos, o.isbuy, size, price)]
        /\ cash' = CashAfterFill(cash, o.isbuy, size, price)
        /\ orders' = [orders EXCEPT ![ref] = executed]
        /\ IF executed.status = "Completed"
           THEN /\ bt_order_map' = CleanupBtMap(bt_order_map, ref)
                /\ broker_order_map' =
                       CleanupBrokerMap(broker_order_map, BtMapGet(bt_order_map, ref))
           ELSE UNCHANGED <<bt_order_map, broker_order_map>>

\* A rejected / cancelled branch that also takes the order's fills back
\* out of the position.
TerminalEventRollback(ref, broker_id, status) ==
    LET o == orders[ref]
        signed == IF o.isbuy THEN o.executed ELSE -o.executed
    IN  /\ orders' = [orders EXCEPT ![ref] =
                         IF status = "rejected" THEN OrderReject(@) ELSE OrderCancel(@)]
        /\ bt_order_map' = CleanupBtMap(bt_order_map, ref)
        /\ broker_order_map' = CleanupBrokerMap(broker_order_map, broker_id)
        /\ positions' = [positions EXCEPT ![o.data].size = @ - signed]
        /\ UNCHANGED <<cash, nfills>>

\* A rejected / cancelled branch that leaves the order in both maps.
TerminalEventNoCleanup(ref, broker_id, status) ==
    /\ orders' = [orders EXCEPT ![ref] =
                     IF status = "rejected" THEN OrderReject(@) ELSE OrderCancel(@)]
    /\ UNCHANGED <<bt_order_map, broker_order_map, positions, cash, nfills>>

\* A rejected / cancelled branch that skips an order with fills.
TerminalEventUnfilledOnly(ref, broker_id, status) ==
    /\ orders' = [orders EXCEPT ![ref] =
                     IF @.executed > 0 THEN @
                     ELSE IF status = "rejected" THEN OrderReject(@) ELSE OrderCancel(@)]
    /\ bt_order_map' = CleanupBtMap(bt_order_map, ref)
    /\ broker_order_map' = CleanupBrokerMap(broker_order_map, broker_id)
    /\ UNCHANGED <<positions, cash, nfills>>

\* _handle_order_update, status in ['rejected', 'cancelled'].
TerminalEvent(ref, broker_id, status) ==
    /\ orders' = [orders EXCEPT ![ref] =
                     IF status = "rejected" THEN OrderReject(@) ELSE OrderCancel(@)]
    /\ bt_order_map' = CleanupBtMap(bt_order_map, ref)
    /\ broker_order_map' = CleanupBrokerMap(broker_order_map, broker_id)
    /\ UNCHANGED <<positions, cash, nfills>>

\* The event is a fill that _handle_order_update hands to _update_fill.
IsFill(broker_id, status) ==
    BrokerMapGet(broker_order_map, broker_id) # NoRef /\ status = "complete"

\* data['averageprice'] or data['filledshares'] of a 'complete' event is
\* missing: the subscript raises KeyError.
FillFieldsMissing(fill_size, fill_price) == fill_price = NoPrice \/ fill_size = NoFill

\* The handler left _handle_order_update by an exception.
Raised == [kind |-> "raised", ref |-> 0]

HandleOrderUpdate(broker_id, status, fill_size, fill_price) ==
    LET ref == BrokerMapGet(broker_order_map, broker_id)
    IN  /\ running = "broker"
        /\ dropped' = IF ref = NoRef THEN DropReason(broker_id)
                      ELSE IF status = "complete" /\ FillFieldsMissing(fill_size, fill_price)
                      THEN Raised
                      ELSE NotDropped
        /\ LET applied == ref # NoRef /\ status = "complete"
                           /\ ~FillFieldsMissing(fill_size, fill_price)
           IN  /\ bought' = IF applied /\ orders[ref].isbuy
                            THEN bought + fill_size * fill_price ELSE bought
               /\ sold' = IF applied /\ ~orders[ref].isbuy
                          THEN sold + fill_size * fill_price ELSE sold
        /\ IF ref = NoRef
           THEN UNCHANGED <<orders, bt_order_map, broker_order_map, positions, cash, nfills>>
           ELSE IF status = "complete" /\ FillFieldsMissing(fill_size, fill_price)
           THEN UNCHANGED <<orders, bt_order_map, broker_order_map, positions, cash, nfills>>
           ELSE IF status = "complete"
           THEN /\ nfills < MaxFills
                /\ nfills' = nfills + 1
                /\ UpdateFill(ref, fill_size, fill_price)
           ELSE IF status \in {"rejected", "cancelled"}
           THEN TerminalEvent(ref, broker_id, status)
           ELSE UNCHANGED <<orders, bt_order_map, broker_order_map, positions, cash, nfills>>
        /\ UNCHANGED <<inflight, issued, placeCalls, assigned>>
        /\ UNCHANGED <<running, omsVars, feedVars, abVars, thrVars, storeVars, storeVars>>

(***************************************************************************)
(* _handle_order_update as a function of the order table and the ledger:   *)
(* what one event makes of them.  It serves to compare the outcomes of two *)
(* orders of delivery of the same events.                                  *)
(***************************************************************************)
\* The order table, the two maps, the positions and the cash as one value.
Ledger ==
    [orders |-> orders, bt_order_map |-> bt_order_map,
     broker_order_map |-> broker_order_map, positions |-> positions, cash |-> cash]

OrderUpdateResult(led, broker_id, status, fill_size, fill_price) ==
    LET ref == BrokerMapGet(led.broker_order_map, broker_id)
    IN  IF ref = NoRef THEN led
        ELSE IF status = "complete"
        THEN IF FillFieldsMissing(fill_size, fill_price) THEN led
             ELSE LET o == led.orders[ref]
                      executed == OrderExecute(o, fill_size)
                      done == executed.status = "Completed"
                  IN  [led EXCEPT
                         !.positions[o.data] =
                             PositionAfterFill(@, o.isbuy, fill_size, fill_price),
                         !.cash = CashAfterFill(@, o.isbuy, fill_size, fill_price),
                         !.orders[ref] = executed,
                         !.bt_order_map = IF done THEN CleanupBtMap(@, ref) ELSE @,
                         !.broker_order_map =
                             IF done
                             THEN CleanupBrokerMap(@, BtMapGet(led.bt_order_map, ref))
                             ELSE @]
        ELSE IF status \in {"rejected", "cancelled"}
        THEN [led EXCEPT
                !.orders[ref] = IF status = "rejected" THEN OrderReject(@)
                                ELSE OrderCancel(@),
                !.bt_order_map = CleanupBtMap(@, ref),
                !.broker_order_map = CleanupBrokerMap(@, broker_id)]
        ELSE led

(***************************************************************************)
(* The backend broker: src/backend/trading/angelbroker.py with the OMS     *)
(* (oms.py) and the store (angelstore.py).  Prices, cash and tick sizes    *)
(* are integers in hundredths of a currency unit (0.05 is 5).              *)
(***************************************************************************)

\* Python None, or a key that is not in a dict.
Missing == -1

\* Cash the broker reports at start.
OmsCash == {1500, 2000}

\* Net quantity the broker reports for the instrument at start.
OmsPositions == {-1, 0, 1}

\* The Instrument row of the symbol: none, or its lot size and tick size
\* (0: the column is empty).
NoInstrument == [found |-> FALSE, lotsize |-> 0, tick_size |-> 0]

OmsInstruments ==
    {NoInstrument,
     [found |-> TRUE, lotsize |-> 0, tick_size |-> 0],
     [found |-> TRUE, lotsize |-> 0, tick_size |-> 10],
     [found |-> TRUE, lotsize |-> 1, tick_size |-> 5]}

\* What the strategy asks for: buy/sell with an exectype, bracket_order
\* (exectype OCO) and cover_order (exectype Limit, is_cover_order).
OmsKinds == {"Market", "Limit", "Stop", "StopLimit", "Close", "Bracket", "Cover"}

OmsSizes == {1, 2}

OmsPrices == {Missing, 1000}

\* data.close[0] when the order is submitted.
LastPrices == {1002, 1005}

\* cover_order's stop_price; bracket_order's squareoff and stoploss.
StopPrice == 990

SquareOff == 20

StopLoss == 10

\* The strategy has not submitted anything yet.
NoOrder ==
    [kind |-> "none", isbuy |-> TRUE, qty |-> 0, price |-> Missing, last |-> 0,
     status |-> "Created", reason |-> "", params |-> [ordertype |-> "none"],
     calls |-> 0, reply |-> "none", checked |-> <<>>]

\* bt.Order.size: negative for a sell order.
OrderSize(isbuy, qty) == IF isbuy THEN qty ELSE -qty

\* The exectype buy/sell is called with for each kind of request.
ExecTypeOf(kind) ==
    IF kind = "Bracket" THEN "OCO" ELSE IF kind = "Cover" THEN "Limit" ELSE kind

(***************************************************************************)
(* OMS.check_margin: "" when the check passes, the exception otherwise.    *)
(* order.size * None raises TypeError.                                     *)
(***************************************************************************)
CheckMargin(isbuy, qty, price, cash_) ==
    IF price = Missing THEN "TypeError"
    ELSE IF cash_ < OrderSize(isbuy, qty) * price THEN "margin"
    ELSE ""

(***************************************************************************)
(* OMS.check_position_limits: skipped when the instrument or its lot size  *)
(* is missing.  Otherwise it reads broker.getposition(data).size, and       *)
(* getposition returns a dict, which has no attribute size: the read       *)
(* raises AttributeError before the limit is compared.                     *)
(***************************************************************************)
CheckPositionLimits(isbuy, qty, instrument, position) ==
    IF ~instrument.found \/ instrument.lotsize = 0 THEN ""
    ELSE "AttributeError"

(***************************************************************************)
(* OMS.check_duplicate_order                                               *)
(***************************************************************************)
SignalKey(isbuy) == IF isbuy THEN "buy" ELSE "sell"

CheckDuplicateOrder(isbuy, active) ==
    IF SignalKey(isbuy) \in DOMAIN active /\ active[SignalKey(isbuy)] = "FILLED"
    THEN "duplicate" ELSE ""

\* A duplicate check that records the signal it has just looked up.
DuplicateTableRecorded(active, isbuy) == MapPut(active, SignalKey(isbuy), "FILLED")

\* active_orders after check_duplicate_order: the check only reads it.
DuplicateTableAfterCheck(active, isbuy) == active

(***************************************************************************)
(* OMS.pre_trade_checks: the first exception raised, "" when none is.      *)
(***************************************************************************)
\* The reason of the last check that fails, every check being run.
PreTradeChecksLast(isbuy, qty, price, cash_, instrument, position, active) ==
    IF CheckDuplicateOrder(isbuy, active) # ""
    THEN CheckDuplicateOrder(isbuy, active)
    ELSE IF CheckPositionLimits(isbuy, qty, instrument, position) # ""
    THEN CheckPositionLimits(isbuy, qty, instrument, position)
    ELSE CheckMargin(isbuy, qty, price, cash_)

\* The checks pre_trade_checks calls before it returns or one of them raises.
ChecksEvaluated(isbuy, qty, price, cash_, instrument, position, active) ==
    IF CheckMargin(isbuy, qty, price, cash_) # ""
    THEN <<"margin">>
    ELSE IF CheckPositionLimits(isbuy, qty, instrument, position) # ""
    THEN <<"margin", "position">>
    ELSE <<"margin", "position", "duplicate">>

PreTradeChecks(isbuy, qty, price, cash_, instrument, position, active) ==
    IF CheckMargin(isbuy, qty, price, cash_) # ""
    THEN CheckMargin(isbuy, qty, price, cash_)
    ELSE IF CheckPositionLimits(isbuy, qty, instrument, position) # ""
    THEN CheckPositionLimits(isbuy, qty, instrument, position)
    ELSE CheckDuplicateOrder(isbuy, active)

(***************************************************************************)
(* AngelBroker.create_order_params (the instrument is found).              *)
(***************************************************************************)
CreateOrderParams(kind, isbuy, qty, price) ==
    LET exectype == ExecTypeOf(kind)
        base == [variety |-> "NORMAL",
                 transactiontype |-> IF isbuy THEN "BUY" ELSE "SELL",
                 ordertype |-> "", quantity |-> OrderSize(isbuy, qty),
                 price |-> Missing, triggerprice |-> Missing,
                 squareoff |-> Missing, stoploss |-> Missing,
                 trailingStoploss |-> Missing]
        typed == IF exectype = "Market"
                 THEN [base EXCEPT !.ordertype = "MARKET", !.price = 0, !.triggerprice = 0]
                 ELSE IF exectype = "Limit"
                 THEN [base EXCEPT !.ordertype = "LIMIT", !.price = price, !.triggerprice = 0]
                 ELSE IF exectype = "Stop"
                 THEN [base EXCEPT !.ordertype = "STOPLOSS_MARKET", !.price = 0,
                                   !.triggerprice = price]
                 ELSE IF exectype = "StopLimit"
                 THEN [base EXCEPT !.ordertype = "STOPLOSS_LIMIT", !.price = price,
                                   !.triggerprice = price]
                 ELSE base
        bracket == IF exectype = "OCO"
                   THEN [typed EXCEPT !.variety = "BO", !.squareoff = SquareOff,
                                      !.stoploss = StopLoss, !.trailingStoploss = 0]
                   ELSE typed
    IN  IF kind = "Cover"
        THEN [bracket EXCEPT !.variety = "CO", !.triggerprice = StopPrice]
        ELSE bracket

(***************************************************************************)
(* OMS.apply_slippage_control                                              *)
(***************************************************************************)
\* The multiple of the tick size added to or taken from the last price.
SlippageTicks == 5

\* tick_size or 0.05
DefaultTick == 5

\* Python round(n / d) for d > 0: to the nearest integer, a tie to the even one.
Round(n, d) ==
    LET q == n \div d
        r == n % d
    IN  IF 2 * r < d THEN q
        ELSE IF 2 * r > d THEN q + 1
        ELSE IF q % 2 = 0 THEN q ELSE q + 1

TickSize(instrument) ==
    IF instrument.tick_size = 0 THEN DefaultTick ELSE instrument.tick_size

\* A limit below the last price whatever the side.
SlippageLimitLower(transactiontype, last_price, tick_size) ==
    last_price - tick_size * SlippageTicks

\* limit_price: above the last price for a BUY, below it for a SELL.
SlippageLimit(transactiontype, last_price, tick_size) ==
    IF transactiontype = "BUY"
    THEN last_price + tick_size * SlippageTicks
    ELSE last_price - tick_size * SlippageTicks

ApplySlippageControl(order_params, last_price, instrument) ==
    IF order_params.ordertype = "MARKET"
    THEN LET tick_size == TickSize(instrument)
             limit_price == SlippageLimit(order_params.transactiontype, last_price, tick_size)
         IN  [order_params EXCEPT !.ordertype = "LIMIT",
                                  !.price = Round(limit_price, tick_size) * tick_size]
    ELSE order_params

(***************************************************************************)
(* AngelStore.place_order: the order id smart_connect.placeOrder returns,  *)
(* None when it raises.                                                    *)
(***************************************************************************)
StoreReplies == {"id", "none", "raise"}

StorePlaceOrder(reply) == IF reply = "id" THEN "id" ELSE "none"

(***************************************************************************)
(* AngelBroker.execute_order: the steps inside the try block run until one *)
(* raises.                                                                 *)
(***************************************************************************)
\* A try block that goes on after a check has raised.
ReachesParamsAlways(checks) == TRUE

\* create_order_params is reached only when no check raised.
ReachesParams(checks) == checks = ""

\* A submission that does not look at the order id.
SubmitsAlways(order_id) == TRUE

\* `if order_id:` submits when the store returned an order id.
Submits(order_id) == order_id = "id"

ExecuteOrder(kind, isbuy, qty, price, last_price, reply) ==
    LET checks == PreTradeChecks(isbuy, qty, price, oms_cash, oms_instrument,
                                 oms_position, active_orders)
        order == [kind |-> kind, isbuy |-> isbuy, qty |-> qty, price |-> price,
                  last |-> last_price, status |-> "Created", reason |-> "",
                  params |-> [ordertype |-> "none"], calls |-> 0, reply |-> "none",
                  checked |-> ChecksEvaluated(isbuy, qty, price, oms_cash, oms_instrument,
                                              oms_position, active_orders)]
    IN  /\ running = "oms"
        /\ oms_order' =
              IF ~ReachesParams(checks)
              THEN OrderReject([order EXCEPT !.reason = checks])
              ELSE IF ~oms_instrument.found
              THEN OrderReject([order EXCEPT !.reason = "instrument"])
              ELSE LET order_params ==
                           ApplySlippageControl(CreateOrderParams(kind, isbuy, qty, price),
                                                last_price, oms_instrument)
                       order_id == StorePlaceOrder(reply)
                       placed == [order EXCEPT !.params = order_params, !.calls = 1,
                                               !.reply = reply]
                   IN  IF Submits(order_id) THEN OrderSubmit(placed)
                       ELSE OrderReject([placed EXCEPT !.reason = "store"])
        /\ active_orders' = DuplicateTableAfterCheck(active_orders, isbuy)
        /\ UNCHANGED <<oms_cash, oms_position, oms_instrument, last_completed>>
        /\ UNCHANGED <<running, brokerVars, feedVars, abVars, thrVars, storeVars, storeVars>>

\* No order has reached Completed yet.
NoSide == "none"

(***************************************************************************)
(* The submitted order is filled at the venue and becomes Completed (the   *)
(* status is bt.Order's).  Nothing in the backend broker or the OMS runs   *)
(* on a fill: active_orders is written nowhere.                            *)
(***************************************************************************)
OmsComplete ==
    /\ running = "oms"
    /\ oms_order.status = "Submitted"
    /\ oms_order' = [oms_order EXCEPT !.status = "Completed"]
    /\ last_completed' = SignalKey(oms_order.isbuy)
    /\ UNCHANGED <<oms_cash, oms_position, oms_instrument, active_orders>>
    /\ UNCHANGED <<running, brokerVars, feedVars, abVars, thrVars, storeVars>>

OmsStart ==
    /\ oms_cash \in OmsCash
    /\ oms_position \in OmsPositions
    /\ oms_instrument \in OmsInstruments
    /\ active_orders = <<>>
    /\ oms_order = NoOrder
    /\ last_completed = NoSide

\* The backend broker is not running.
OmsIdle ==
    /\ oms_cash = 0
    /\ oms_position = 0
    /\ oms_instrument = NoInstrument
    /\ active_orders = <<>>
    /\ oms_order = NoOrder
    /\ last_completed = NoSide

(***************************************************************************)
(* The live data feed: src/backtrader/feeds/angeldata.py.  Tick times are  *)
(* seconds since the start of the session.                                 *)
(***************************************************************************)
\* Most ticks one bar aggregates in the model.
MaxWindow == 3

\* params: timeframe, compression.
TimeFrame == "Minutes"

Compression == 1

\* Values of compression a feed is configured with.
Compressions == {1, 2}

\* Values of timeframe a feed is configured with.
TimeFrames == {"Minutes", "Days"}

SecondsPerMinute == 60

TickTimes == {0, 60, 120}

\* last_traded_price of a tick.
TickPrices == {95, 100, 105}

\* last_traded_quantity of a tick; Missing: the tick has no such key.
TickVolumes == {Missing, 1}

\* A tick without a last_traded_price key.
NoPriceTick == [dt |-> 0, price |-> Missing, volume |-> Missing]

Ticks == [dt : TickTimes, price : TickPrices, volume : TickVolumes] \cup {NoPriceTick}

\* _current_bar is None; nothing written to the lines yet.
NoBar ==
    [datetime |-> Missing, open |-> Missing, high |-> Missing, low |-> Missing,
     close |-> Missing, volume |-> Missing]

\* tick.get('last_traded_quantity', 0)
TickVolume(tick) == IF tick.volume = Missing THEN 0 ELSE tick.volume

\* AngelData._start_new_bar
StartNewBar(dt, price, volume) ==
    [datetime |-> dt, open |-> price, high |-> price, low |-> price,
     close |-> price, volume |-> volume]

\* A bar that ends at the time of its first tick.
GetBarEndTimeNoWindow(dt) == dt

\* AngelData._get_bar_end_time
GetBarEndTime(dt) ==
    IF timeframe = "Minutes"
    THEN (dt \div SecondsPerMinute) * SecondsPerMinute + compression * SecondsPerMinute
    ELSE dt

\* A high that stays at the bar's first price.
BarHighKeep(bar, price) == bar.high

\* max(self._current_bar['high'], price)
BarHigh(bar, price) == IF price > bar.high THEN price ELSE bar.high

\* A low that stays at the bar's first price.
BarLowKeep(bar, price) == bar.low

\* min(self._current_bar['low'], price)
BarLow(bar, price) == IF price < bar.low THEN price ELSE bar.low

\* The else branch of _aggregate_tick: the tick falls inside the open bar.
UpdateBar(bar, price, volume) ==
    [bar EXCEPT !.high = BarHigh(bar, price), !.low = BarLow(bar, price),
                !.close = price, !.volume = bar.volume + volume]

\* AngelData._push_bar: the values written to lines.*[0].
PushBar(bar) == bar

\* AngelData._aggregate_tick
AggregateTick(tick) ==
    /\ running = "feed"
    /\ IF tick.price = Missing
       THEN /\ pushed' = 0
            /\ UNCHANGED <<current_bar, lines, window>>
       ELSE IF current_bar = NoBar
       THEN /\ current_bar' = StartNewBar(tick.dt, tick.price, TickVolume(tick))
            /\ window' = <<[price |-> tick.price, volume |-> TickVolume(tick)]>>
            /\ pushed' = 0
            /\ UNCHANGED lines
       ELSE IF tick.dt >= GetBarEndTime(current_bar.datetime)
       THEN /\ lines' = PushBar(current_bar)
            /\ pushed' = 1
            /\ current_bar' = StartNewBar(tick.dt, tick.price, TickVolume(tick))
            /\ window' = <<[price |-> tick.price, volume |-> TickVolume(tick)]>>
       ELSE /\ Len(window) < MaxWindow
            /\ current_bar' = UpdateBar(current_bar, tick.price, TickVolume(tick))
            /\ window' = Append(window, [price |-> tick.price, volume |-> TickVolume(tick)])
            /\ pushed' = 0
            /\ UNCHANGED lines
    /\ UNCHANGED <<compression, timeframe>>
    /\ UNCHANGED <<running, brokerVars, omsVars, abVars, thrVars, storeVars>>

\* AngelData.__init__ with the default compression.
FeedStart ==
    /\ current_bar = NoBar
    /\ lines = NoBar
    /\ pushed = 0
    /\ window = <<>>
    /\ compression = Compression
    /\ timeframe = TimeFrame

\* AngelData.__init__ with compression given by the caller.
FeedStartCompressed ==
    /\ current_bar = NoBar
    /\ lines = NoBar
    /\ pushed = 0
    /\ window = <<>>
    /\ compression \in Compressions
    /\ timeframe = TimeFrame

\* AngelData.__init__ with timeframe and compression given by the caller.
FeedStartConfigured ==
    /\ current_bar = NoBar
    /\ lines = NoBar
    /\ pushed = 0
    /\ window = <<>>
    /\ compression \in Compressions
    /\ timeframe \in TimeFrames

(***************************************************************************)
(* The backtrader_angel broker: src/backtrader_angel/ABbroker.py.  It      *)
(* reports an order's status by notifying bt.Order(status, ref).           *)
(***************************************************************************)
\* Orders the session broker is given in one run.
MaxAbOrders == 2

\* order.ordtype values the strategy uses; "Close" has no API order type.
AbOrderTypes == {"Market", "Limit", "Stop", "StopLimit", "Close"}

AbPrices == {NoPrice, LimitPrice}

\* session.place_order: raises, returns None, a false status, a true status
\* without an order id, or a true status with a fresh order id.
AbResponses == {"raise", "none", "failed", "noid", "ok"}

\* order_type_map.get(order.ordtype); "" when the type is not in the map.
ApiOrderType(ordtype) ==
    IF ordtype = "Market" THEN "MARKET"
    ELSE IF ordtype = "Limit" THEN "LIMIT"
    ELSE IF ordtype \in {"Stop", "StopLimit"} THEN "STOPLOSS_LIMIT"
    ELSE ""

\* _submit returns before session.place_order: no token, no API order type,
\* or a LIMIT / STOPLOSS_LIMIT order without a price.
AbRefused(token, ordtype, price) ==
    \/ ~token
    \/ ApiOrderType(ordtype) = ""
    \/ ApiOrderType(ordtype) \in {"LIMIT", "STOPLOSS_LIMIT"} /\ price = NoPrice

\* The payload _submit builds: the API order type, the price for a LIMIT or
\* STOPLOSS_LIMIT order, and for STOPLOSS_LIMIT the same price as trigger.
AbPayload(ordtype, price) ==
    LET api_order_type == ApiOrderType(ordtype)
    IN  [ordertype |-> api_order_type,
         price |-> IF api_order_type \in {"LIMIT", "STOPLOSS_LIMIT"} THEN price ELSE Missing,
         triggerprice |-> IF api_order_type = "STOPLOSS_LIMIT" THEN price ELSE Missing]

\* AngelBroker._submit
AbSubmit(token, ordtype, price, resp) ==
    /\ running = "ab"
    /\ Len(ab_created) < MaxAbOrders
    /\ LET ref == Len(ab_created) + 1
           accepted == ~AbRefused(token, ordtype, price) /\ resp = "ok"
       IN  /\ ab_created' = Append(ab_created,
                                   [ordtype |-> ordtype, price |-> price,
                                    sent |-> IF AbRefused(token, ordtype, price)
                                             THEN NoParams
                                             ELSE AbPayload(ordtype, price),
                                    status |-> IF accepted THEN "Submitted" ELSE "Rejected"])
           /\ ab_orders' = IF accepted THEN MapPut(ab_orders, ref, ab_issued + 1)
                           ELSE ab_orders
           /\ ab_issued' = IF accepted THEN ab_issued + 1 ELSE ab_issued
    /\ UNCHANGED <<running, brokerVars, omsVars, feedVars, thrVars, storeVars>>

\* AngelBroker._cancel: a true status in the cancel response is notified as
\* Canceled; a false status, an exception and an untracked order only log.
AbCancel(ref, reply) ==
    /\ running = "ab"
    /\ ref \in 1..Len(ab_created)
    /\ reply \in CancelReplies
    /\ ab_created' = IF ref \in DOMAIN ab_orders /\ reply = "ok"
                     THEN [ab_created EXCEPT ![ref].status = "Canceled"]
                     ELSE ab_created
    /\ UNCHANGED <<ab_orders, ab_issued>>
    /\ UNCHANGED <<running, brokerVars, omsVars, feedVars, thrVars, storeVars>>

\* AngelBroker.__init__
AbStart ==
    /\ ab_orders = <<>>
    /\ ab_created = <<>>
    /\ ab_issued = 0

(***************************************************************************)
(* The two threads of brokers/angelbroker.py on the position / cash table. *)
(* The websocket thread started by _start_order_feed runs _update_fill for *)
(* each fill event; the strategy thread calls getvalue.  Neither takes a   *)
(* lock, so the statements of the two interleave.                          *)
(***************************************************************************)
\* Fills the websocket thread applies in one run.
MaxThreadFills == 2

\* data.close[0] while getvalue runs.
ClosePrice == 10

\* No fill is being applied.
NoThreadFill == [isbuy |-> TRUE, size |-> 0, price |-> 0]

\* _update_fill lines 73-76 / 79: pos = self.positions.get(data, Position(0,
\* 0.0)) and pos.size += / -= size.  The write is to the object in the dict
\* when the key is set, to a new local Position otherwise.
WsWriteSize(isbuy, size, price) ==
    /\ running = "threads"
    /\ ws_pc = "idle"
    /\ th_fills < MaxThreadFills
    /\ ws_fill' = [isbuy |-> isbuy, size |-> size, price |-> price]
    /\ th_pos' = IF th_pos.set
                 THEN [th_pos EXCEPT !.size = IF isbuy THEN @ + size ELSE @ - size]
                 ELSE th_pos
    /\ ws_pc' = "sized"
    /\ UNCHANGED <<st_pc, st_val, th_cash, th_value, th_fills>>
    /\ UNCHANGED <<running, brokerVars, omsVars, feedVars, abVars, storeVars>>

\* _update_fill line 77 / 80: self.cash -= / += size * price.
WsWriteCash ==
    /\ running = "threads"
    /\ ws_pc = "sized"
    /\ th_cash' = CashAfterFill(th_cash, ws_fill.isbuy, ws_fill.size, ws_fill.price)
    /\ ws_pc' = "cashed"
    /\ UNCHANGED <<ws_fill, st_pc, st_val, th_pos, th_value, th_fills>>
    /\ UNCHANGED <<running, brokerVars, omsVars, feedVars, abVars, storeVars>>

\* _update_fill line 82: self.positions[order.data] = pos.
WsStorePosition ==
    /\ running = "threads"
    /\ ws_pc = "cashed"
    /\ th_pos' = IF th_pos.set THEN th_pos
                 ELSE [set |-> TRUE,
                       size |-> IF ws_fill.isbuy THEN ws_fill.size ELSE -ws_fill.size]
    /\ ws_fill' = NoThreadFill
    /\ ws_pc' = "idle"
    /\ th_fills' = th_fills + 1
    /\ UNCHANGED <<st_pc, st_val, th_cash, th_value>>
    /\ UNCHANGED <<running, brokerVars, omsVars, feedVars, abVars, storeVars>>

\* getvalue line 98: val = self.cash.
StReadCash ==
    /\ running = "threads"
    /\ st_pc = "idle"
    /\ st_val' = th_cash
    /\ st_pc' = "summing"
    /\ UNCHANGED <<ws_pc, ws_fill, th_pos, th_cash, th_value, th_fills>>
    /\ UNCHANGED <<running, brokerVars, omsVars, feedVars, abVars, storeVars>>

\* getvalue lines 99-102: val += pos.size * data.close[0]; self.value = val.
StReadPositions ==
    /\ running = "threads"
    /\ st_pc = "summing"
    /\ th_value' = IF th_pos.set /\ th_pos.size # 0
                   THEN st_val + th_pos.size * ClosePrice ELSE st_val
    /\ st_val' = 0
    /\ st_pc' = "idle"
    /\ UNCHANGED <<ws_pc, ws_fill, th_pos, th_cash, th_fills>>
    /\ UNCHANGED <<running, brokerVars, omsVars, feedVars, abVars, storeVars>>

\* AngelBroker.__init__ / start: no position, the starting cash and value.
ThreadsStart ==
    /\ ws_pc = "idle"
    /\ ws_fill = NoThreadFill
    /\ st_pc = "idle"
    /\ st_val = 0
    /\ th_pos = [set |-> FALSE, size |-> 0]
    /\ th_cash = startingcash
    /\ th_value = startingcash
    /\ th_fills = 0

(***************************************************************************)
(* The session store: src/angel_integration/store.py.  The fields are      *)
(* those of the instance AngelStore._singleton refers to.                  *)
(***************************************************************************)
\* AngelStore instances created in one run.
MaxStores == 2

\* SmartConnect objects created (login attempts made) in one run.
MaxSessions == 4

\* AngelStore._singleton is None.
NoStore == 0

\* self.smart_api is None.
NoSession == [id |-> 0, authenticated |-> FALSE]

\* get_session has not been called.
NotCalled == [kind |-> "none", session |-> NoSession, connected |-> FALSE]

\* generate_session: returns a true status with a jwtToken, returns without
\* one, or raises.
LoginReplies == {"ok", "failed", "raise"}

\* renew_access_token: returns, or raises.
RefreshReplies == {"ok", "raise"}

\* _refresh_token line 109: the token is renewed when the store is connected
\* and the session has less than 30 minutes left.
RefreshDue(is_connected, is_expiring) == is_connected /\ is_expiring

\* AngelStore(): __new__ returns the singleton, creating it when there is
\* none, and __init__ then runs on the instance returned.
Construct ==
    /\ running = "store"
    /\ singleton # NoStore \/ stores < MaxStores
    /\ singleton' = IF singleton = NoStore THEN stores + 1 ELSE singleton
    /\ stores' = IF singleton = NoStore THEN stores + 1 ELSE stores
    /\ smart_api' = NoSession
    /\ connected' = FALSE
    /\ expiring' = TRUE
    /\ instances' = instances \cup {singleton'}
    /\ UNCHANGED <<sessions, logins, refresh_failed, returned>>
    /\ UNCHANGED <<running, brokerVars, omsVars, feedVars, abVars, thrVars>>

\* get_session: _connect when the store is not connected (it raises when
\* the login fails), then _refresh_token, then return self.smart_api.
GetSession(login, refresh) ==
    /\ running = "store"
    /\ singleton # NoStore
    /\ connected \/ sessions < MaxSessions
    /\ IF ~connected /\ login # "ok"
       THEN /\ smart_api' = [id |-> sessions + 1, authenticated |-> FALSE]
            /\ sessions' = sessions + 1
            /\ connected' = FALSE
            /\ returned' = [kind |-> "raised", session |-> NoSession, connected |-> FALSE]
            /\ UNCHANGED <<expiring, logins, refresh_failed>>
       ELSE LET session == IF connected THEN smart_api
                           ELSE [id |-> sessions + 1, authenticated |-> TRUE]
                due == RefreshDue(TRUE, IF connected THEN expiring ELSE FALSE)
            IN  /\ smart_api' = session
                /\ sessions' = IF connected THEN sessions ELSE sessions + 1
                /\ logins' = IF connected THEN logins ELSE logins + 1
                /\ connected' = ~(due /\ refresh = "raise")
                /\ expiring' = IF connected /\ ~(due /\ refresh = "ok") THEN expiring
                                ELSE FALSE
                /\ refresh_failed' = (refresh_failed \/ (due /\ refresh = "raise"))
                /\ returned' = [kind |-> "returned", session |-> session,
                                connected |-> connected']
    /\ UNCHANGED <<singleton, stores, instances>>
    /\ UNCHANGED <<running, brokerVars, omsVars, feedVars, abVars, thrVars>>

\* time.time() comes within 30 minutes of the session's expiry time.
TimePasses ==
    /\ running = "store"
    /\ singleton # NoStore
    /\ ~expiring
    /\ expiring' = TRUE
    /\ UNCHANGED <<singleton, smart_api, connected, stores, sessions, logins, instances,
                   refresh_failed, returned>>
    /\ UNCHANGED <<running, brokerVars, omsVars, feedVars, abVars, thrVars>>

\* stop: when connected, get_session() (which refreshes a token about to
\* expire) and terminate_session, whose failure is logged; in any case the
\* store is then disconnected and the singleton reset.  Nothing is done
\* when the store is not connected.
Stop(refresh) ==
    /\ running = "store"
    /\ singleton # NoStore
    /\ connected
    /\ LET due == RefreshDue(connected, expiring)
       IN  /\ expiring' = IF due /\ refresh = "ok" THEN FALSE ELSE expiring
           /\ returned' = [kind |-> "returned", session |-> smart_api,
                           connected |-> ~(due /\ refresh = "raise")]
    /\ connected' = FALSE
    /\ singleton' = NoStore
    /\ logins' = 0
    /\ instances' = {}
    /\ refresh_failed' = FALSE
    /\ UNCHANGED <<smart_api, stores, sessions>>
    /\ UNCHANGED <<running, brokerVars, omsVars, feedVars, abVars, thrVars>>

\* No AngelStore has been constructed.
StoreStart ==
    /\ singleton = NoStore
    /\ smart_api = NoSession
    /\ connected = FALSE
    /\ expiring = TRUE
    /\ stores = 0
    /\ sessions = 0
    /\ logins = 0
    /\ instances = {}
    /\ refresh_failed = FALSE
    /\ returned = NotCalled

NextStore ==
    \/ Construct
    \/ \E login \in LoginReplies, refresh \in RefreshReplies : GetSession(login, refresh)
    \/ TimePasses
    \/ \E refresh \in RefreshReplies : Stop(refresh)

NextThreads ==
    \/ \E isbuy \in BOOLEAN, size \in Sizes, price \in Prices : WsWriteSize(isbuy, size, price)
    \/ WsWriteCash
    \/ WsStorePosition
    \/ StReadCash
    \/ StReadPositions

NextOMS ==
    \/ \E kind \in OmsKinds, isbuy \in BOOLEAN, qty \in OmsSizes, price \in OmsPrices,
          last_price \in LastPrices, reply \in StoreReplies :
           ExecuteOrder(kind, isbuy, qty, price, last_price, reply)
    \/ OmsComplete

NextBroker ==
    \/ \E d \in Datas, isbuy \in BOOLEAN, size \in OrderSizes, exectype \in ExecTypes,
          resp \in Responses :
          PlaceCall(d, isbuy, size, exectype, IF exectype = "Market" THEN NoPrice ELSE LimitPrice, resp)
    \/ PlaceReturn
    \/ \E ref \in 1..MaxOrders, reply \in CancelReplies \cup {NoReply} : Cancel(ref, reply)
    \/ \E broker_id \in EventIds : \E e \in EventsFor(broker_id) :
          HandleOrderUpdate(broker_id, e[1], e[2], e[3])

NextFeed == \E tick \in Ticks : AggregateTick(tick)

NextAB ==
    \/ \E token \in BOOLEAN, ordtype \in AbOrderTypes, price \in AbPrices,
          resp \in AbResponses : AbSubmit(token, ordtype, price, resp)
    \/ \E ref \in 1..MaxAbOrders, reply \in CancelReplies : AbCancel(ref, reply)

(***************************************************************************)
(* A process runs one of the components; the others stay as constructed.   *)
(***************************************************************************)
InitBroker ==
    running = "broker" /\ BrokerStart /\ OmsIdle /\ FeedStart /\ AbStart
    /\ ThreadsStart /\ StoreStart

InitOMS ==
    running = "oms" /\ BrokerStart /\ OmsStart /\ FeedStart /\ AbStart
    /\ ThreadsStart /\ StoreStart

InitFeed ==
    running = "feed" /\ BrokerStart /\ OmsIdle /\ FeedStart /\ AbStart
    /\ ThreadsStart /\ StoreStart

InitAB ==
    running = "ab" /\ BrokerStart /\ OmsIdle /\ FeedStart /\ AbStart
    /\ ThreadsStart /\ StoreStart

InitThreads ==
    running = "threads" /\ BrokerStart /\ OmsIdle /\ FeedStart /\ AbStart
    /\ ThreadsStart /\ StoreStart

InitStore ==
    running = "store" /\ BrokerStart /\ OmsIdle /\ FeedStart /\ AbStart
    /\ ThreadsStart /\ StoreStart

InitFeedIntervals ==
    running = "feed" /\ BrokerStart /\ OmsIdle /\ FeedStartCompressed /\ AbStart
    /\ ThreadsStart /\ StoreStart

InitFeedTimeframes ==
    running = "feed" /\ BrokerStart /\ OmsIdle /\ FeedStartConfigured /\ AbStart
    /\ ThreadsStart /\ StoreStart

InitSubmit == InitBroker \/ InitOMS

NextSubmit == NextBroker \/ NextOMS

SpecBroker == InitBroker /\ [][NextBroker]_vars

SpecOMS == InitOMS /\ [][NextOMS]_vars

SpecSubmit == InitSubmit /\ [][NextSubmit]_vars

SpecFeed == InitFeed /\ [][NextFeed]_vars

SpecAB == InitAB /\ [][NextAB]_vars

SpecThreads == InitThreads /\ [][NextThreads]_vars

SpecStore == InitStore /\ [][NextStore]_vars

\* The feed at each configured interval.
SpecFeedIntervals == InitFeedIntervals /\ [][NextFeed]_vars

\* The feed at each configured timeframe and interval.
SpecFeedTimeframes == InitFeedTimeframes /\ [][NextFeed]_vars

\* The two brokers that take cancel requests, either one running.
InitCancel == InitBroker \/ InitAB

NextCancel == NextBroker \/ NextAB

SpecCancel == InitCancel /\ [][NextCancel]_vars

(***************************************************************************)
(* Properties of the reconciler (SpecBroker).                              *)
(***************************************************************************)

\* C1: after any sequence of order-update events every order's cumulative
\* filled quantity is at most its requested quantity.
C1_FilledWithinRequested ==
    \A r \in DOMAIN orders : orders[r].executed <= orders[r].size

\* C2: once an order is Completed, Rejected or Canceled, no later step (in
\* particular no later event for its broker id) changes its status or its
\* cumulative filled quantity.
C2_TerminalImmutable ==
    [][\A r \in DOMAIN orders :
          orders[r].status \in Terminal =>
              /\ orders'[r].status = orders[r].status
              /\ orders'[r].executed = orders[r].executed]_vars

\* An event carrying the broker id of a terminal order has been delivered.
C2_Witness ==
    \E r \in DOMAIN orders :
        /\ orders[r].status \in Terminal
        /\ dropped = [kind |-> "stale", ref |-> r]

\* C3: cash and the positions change only in a step that applies a fill
\* event; every other step (a rejected or cancelled event, an event with an
\* unknown id, a submission, a cancel request) leaves them as they were.
C3_OnlyFillsMoveLedger ==
    [][(cash' # cash \/ positions' # positions) =>
          \E broker_id \in EventIds, fill_size \in Sizes, fill_price \in Prices :
              /\ IsFill(broker_id, "complete")
              /\ HandleOrderUpdate(broker_id, "complete", fill_size, fill_price)]_vars

\* A rejected or cancelled event arrived after a partial fill, and the fill
\* still stands in the position.
C3_Witness ==
    \E r \in DOMAIN orders :
        /\ orders[r].status \in {"Rejected", "Canceled"}
        /\ orders[r].executed > 0
        /\ nfills = 1
        /\ positions[orders[r].data].size =
               (IF orders[r].isbuy THEN orders[r].executed ELSE -orders[r].executed)

\* C4: a fill that grows the position in its own direction (a buy on a flat
\* or long position, a sell on a flat or short one) leaves the average price
\* (oldAvg*oldQty + price*qty) / (oldQty + qty).
C4_SameDirectionAverage ==
    [][\A broker_id \in EventIds, fill_size \in Sizes, fill_price \in Prices :
          LET ref == BrokerMapGet(broker_order_map, broker_id)
              d == orders[ref].data
              oldQty == Abs(positions[d].size)
              oldAvg == positions[d].price
          IN  (/\ IsFill(broker_id, "complete")
               /\ HandleOrderUpdate(broker_id, "complete", fill_size, fill_price)
               /\ IF orders[ref].isbuy THEN positions[d].size >= 0
                                       ELSE positions[d].size <= 0)
              => FracEq(positions'[d].price,
                        Frac(oldAvg[1] * oldQty + fill_price * fill_size * oldAvg[2],
                             oldAvg[2] * (oldQty + fill_size)))]_vars

\* C11: an order-update event whose broker order id is in no order map
\* entry raises no error and leaves every order, both order maps, every
\* position and the cash as they were.
C11_UnknownIdDropped ==
    [][(\/ orders' # orders
        \/ bt_order_map' # bt_order_map
        \/ broker_order_map' # broker_order_map
        \/ positions' # positions
        \/ cash' # cash
        \/ dropped'.kind = "raised")
       => \A broker_id \in EventIds \ DOMAIN broker_order_map :
              /\ \A fill_size \in Sizes, fill_price \in Prices :
                     ~HandleOrderUpdate(broker_id, "complete", fill_size, fill_price)
              /\ \A status \in EventStatuses :
                     ~HandleOrderUpdate(broker_id, status, NoFill, NoPrice)]_vars

\* An event of another client's order was dropped while an order of this
\* process was live and partly filled.
C11_Witness ==
    /\ dropped = [kind |-> "foreign", ref |-> 0]
    /\ \E r \in DOMAIN orders : orders[r].status = "Partial"
    /\ broker_order_map # <<>>

\* C12: no order-update event makes _handle_order_update raise.
C12_HandlerNeverRaises == dropped.kind # "raised"

\* C13: the cash is the starting cash less size * price of every buy fill
\* applied plus size * price of every sell fill applied.
C13_CashIsSumOfFills == cash = startingcash - bought + sold

\* A buy fill and a sell fill have both been applied.
C13_Witness == bought > 0 /\ sold > 0 /\ nfills = MaxFills

C23_FillApplied ==
    [][nfills' # nfills =>
          \A broker_id \in DOMAIN broker_order_map, fill_size \in Sizes, fill_price \in Prices :
              HandleOrderUpdate(broker_id, "complete", fill_size, fill_price) =>
                  LET ref == broker_order_map[broker_id]
                      d == orders[ref].data
                      signed == IF orders[ref].isbuy THEN fill_size ELSE -fill_size
                  IN  /\ orders[ref].status \notin Terminal
                      /\ orders'[ref].executed = orders[ref].executed + fill_size
                      /\ positions'[d].size = positions[d].size + signed
                      /\ cash' = cash - signed * fill_price
                      /\ nfills' = nfills + 1
                      /\ orders'[ref].status =
                             (IF orders'[ref].executed = orders[ref].size
                              THEN "Completed" ELSE "Partial")]_vars

\* A second fill completed an order that was Partial: filled 1 + 1 of 2.
C23_Witness ==
    \E r \in DOMAIN orders :
        /\ orders[r].status = "Completed"
        /\ orders[r].executed = 2
        /\ nfills = 2
        /\ positions[orders[r].data].size = (IF orders[r].isbuy THEN 2 ELSE -2)
        /\ cash \in {startingcash - 30, startingcash + 30}

\* C24: a rejected or cancelled event for an order that is Submitted,
\* Accepted or Partial moves it to Rejected or Canceled respectively,
\* whatever was filled before, and leaves its filled quantity as it was.
C24_TerminalEventUnconditional ==
    [][\A broker_id \in DOMAIN broker_order_map, status \in {"rejected", "cancelled"} :
          (/\ dropped'.kind = "none"
           /\ nfills' = nfills
           /\ HandleOrderUpdate(broker_id, status, NoFill, NoPrice)) =>
              LET ref == broker_order_map[broker_id]
              IN  /\ orders[ref].status \in {"Submitted", "Accepted", "Partial"}
                  /\ orders'[ref].status =
                         (IF status = "rejected" THEN "Rejected" ELSE "Canceled")
                  /\ orders'[ref].executed = orders[ref].executed]_vars

\* A cancelled event closed an order that had been filled beyond its size.
C24_Witness ==
    \E r \in DOMAIN orders :
        /\ orders[r].status = "Canceled"
        /\ orders[r].executed > orders[r].size
        /\ r \notin DOMAIN bt_order_map

\* C25: a fill against the position (a sell on a long, a buy on a short) of
\* less than the position's size moves the size by the fill quantity and
\* leaves the average price as it was.
C25_ReducingFillKeepsAverage ==
    [][nfills' # nfills =>
          \A broker_id \in DOMAIN broker_order_map, fill_size \in Sizes, fill_price \in Prices :
              LET ref == broker_order_map[broker_id]
                  d == orders[ref].data
                  signed == IF orders[ref].isbuy THEN fill_size ELSE -fill_size
              IN  (/\ HandleOrderUpdate(broker_id, "complete", fill_size, fill_price)
                   /\ positions[d].size * signed < 0
                   /\ fill_size < Abs(positions[d].size))
                  => /\ positions'[d].size = positions[d].size + signed
                     /\ FracEq(positions'[d].price, positions[d].price)]_vars

\* C26: a fill against the position of more than the position's size flips
\* its sign: the new size is the residual on the other side and the new
\* average price is the fill price.
C26_FlipResetsAverage ==
    [][nfills' # nfills =>
          \A broker_id \in DOMAIN broker_order_map, fill_size \in Sizes, fill_price \in Prices :
              LET ref == broker_order_map[broker_id]
                  d == orders[ref].data
                  signed == IF orders[ref].isbuy THEN fill_size ELSE -fill_size
              IN  (/\ HandleOrderUpdate(broker_id, "complete", fill_size, fill_price)
                   /\ positions[d].size * signed < 0
                   /\ fill_size > Abs(positions[d].size))
                  => /\ positions'[d].size = positions[d].size + signed
                     /\ FracEq(positions'[d].price, <<fill_price, 1>>)]_vars

\* C31: from every state, an event of one tracked order followed by an event
\* of another gives the same order statuses, cumulative filled quantities,
\* position sizes and cash as the two events in the other order; so every
\* interleaving of the two orders' event streams, which differ by swaps of
\* neighbouring events of different orders, ends in the same outcome.
C31_CrossOrderEventsCommute ==
    LET Outcome(led) ==
            [orders |-> [r \in DOMAIN led.orders |->
                            <<led.orders[r].status, led.orders[r].executed>>],
             sizes |-> [d \in DOMAIN led.positions |-> led.positions[d].size],
             cash |-> led.cash]
    IN  \A a, b \in DOMAIN broker_order_map :
            (a < b /\ broker_order_map[a] # broker_order_map[b]) =>
                \A e1 \in EventsFor(a), e2 \in EventsFor(b) :
                    Outcome(OrderUpdateResult(
                                OrderUpdateResult(Ledger, a, e1[1], e1[2], e1[3]),
                                b, e2[1], e2[2], e2[3]))
                    = Outcome(OrderUpdateResult(
                                  OrderUpdateResult(Ledger, b, e2[1], e2[2], e2[3]),
                                  a, e1[1], e1[2], e1[3]))

\* A buy order and a sell order are both tracked and each has had a fill
\* applied: events of two orders have been interleaved.
C31_Witness ==
    \E r1, r2 \in DOMAIN bt_order_map :
        /\ orders[r1].isbuy /\ ~orders[r2].isbuy
        /\ orders[r1].executed > 0 /\ orders[r2].executed > 0
        /\ positions[orders[r1].data].size = 0

C33_NoUpdateLostBeforeRegistration == dropped.kind # "early"

\* C34: between operations _bt_order_map and _broker_order_map are mutual
\* inverses (ref -> id exactly when id -> the order with that ref) and hold
\* only orders that are Submitted or Partial.
C34_MapsInverseAndLive ==
    /\ \A r \in DOMAIN bt_order_map :
           /\ bt_order_map[r] \in DOMAIN broker_order_map
           /\ broker_order_map[bt_order_map[r]] = r
    /\ \A id \in DOMAIN broker_order_map :
           /\ broker_order_map[id] \in DOMAIN bt_order_map
           /\ bt_order_map[broker_order_map[id]] = id
    /\ \A r \in DOMAIN bt_order_map :
           /\ r \in DOMAIN orders
           /\ orders[r].status \in {"Submitted", "Partial"}

\* One order was removed from both maps by a rejected or cancelled event
\* and another is still tracked, partly filled.
C34_Witness ==
    /\ \E r \in DOMAIN orders :
           /\ orders[r].status \in {"Canceled", "Rejected"}
           /\ r \in DOMAIN assigned /\ r \notin DOMAIN bt_order_map
           /\ assigned[r] \notin DOMAIN broker_order_map
    /\ \E r \in DOMAIN bt_order_map : orders[r].status = "Partial"

(***************************************************************************)
(* Properties of the backend submission path (SpecOMS).                    *)
(***************************************************************************)

\* C5: the margin check rejects an intent exactly when requestedQty *
\* referencePrice > availableCash, the reference price being the intent's
\* price when it has one and the latest market price otherwise.
C5_MarginRejectsExactly ==
    oms_order.kind # "none" =>
        LET referencePrice == IF oms_order.price # Missing THEN oms_order.price
                              ELSE oms_order.last
        IN  (oms_order.reason \in {"margin", "TypeError"})
                <=> (oms_order.qty * referencePrice > oms_cash)

\* C6: a Market intent that reaches the store is sent as a LIMIT order whose
\* price is a whole number of ticks, is the multiple of the tick size nearest
\* to last + 5 ticks (buy) or last - 5 ticks (sell), and is at or above the
\* last price for a buy and at or below it for a sell.
C6_MarketBecomesLimit ==
    (oms_order.kind = "Market" /\ oms_order.calls = 1) =>
        LET tick == IF oms_instrument.tick_size = 0 THEN 5
                    ELSE oms_instrument.tick_size
            target == IF oms_order.isbuy THEN oms_order.last + 5 * tick
                      ELSE oms_order.last - 5 * tick
            price == oms_order.params.price
        IN  /\ oms_order.params.ordertype = "LIMIT"
            /\ price % tick = 0
            /\ 2 * Abs(price - target) <= tick
            /\ IF oms_order.isbuy THEN price >= oms_order.last
                                  ELSE price <= oms_order.last

\* A Market sell was sent with a last price that is no multiple of the tick
\* size, so the limit had to be rounded.
C6_Witness ==
    /\ oms_order.kind = "Market"
    /\ oms_order.calls = 1
    /\ ~oms_order.isbuy
    /\ oms_order.last % TickSize(oms_instrument) # 0
    /\ oms_order.params.price # oms_order.last - 5 * TickSize(oms_instrument)

\* C8: an order for which a pre-trade check failed is Rejected and no
\* placeOrder call was made for it.
C8_FailedCheckNeverPlaced ==
    (oms_order.kind # "none"
     /\ PreTradeChecks(oms_order.isbuy, oms_order.qty, oms_order.price, oms_cash,
                       oms_instrument, oms_position, active_orders) # "")
        => (oms_order.status = "Rejected" /\ oms_order.calls = 0)

\* The margin check raised for a buy the cash does not cover.
C8_Witness ==
    /\ oms_order.kind # "none"
    /\ oms_order.isbuy
    /\ oms_order.reason = "margin"
    /\ oms_order.qty * oms_order.price > oms_cash
    /\ oms_order.status = "Rejected"
    /\ oms_order.calls = 0

\* C15: for a malformed intent - a kind with no wire mapping, or a Limit or
\* StopLimit intent without a price - store.place_order is never called.
C15_MalformedNeverPlaced ==
    (\/ oms_order.kind = "Close"
     \/ oms_order.kind \in {"Limit", "StopLimit"} /\ oms_order.price = Missing)
    => oms_order.calls = 0

\* C16: an intent whose (instrument, side) key is that of the order that
\* reached Completed last, with no opposite-side completion since, is
\* Rejected.
C16_RepeatedIntentRejected ==
    (/\ oms_order.status \in {"Submitted", "Rejected"}
     /\ last_completed = SignalKey(oms_order.isbuy))
    => oms_order.status = "Rejected"

\* C17: with an instrument that has a lot size, an intent that passed the
\* margin check is rejected by the position-limit check exactly when
\* |position + signed quantity| exceeds the lot size.
C17_PositionLimitExact ==
    (/\ oms_order # NoOrder
     /\ oms_instrument.found
     /\ oms_instrument.lotsize # 0
     /\ CheckMargin(oms_order.isbuy, oms_order.qty, oms_order.price, oms_cash) = "")
    => ((oms_order.status = "Rejected" /\ oms_order.calls = 0)
        <=> Abs(oms_position + OrderSize(oms_order.isbuy, oms_order.qty))
                > oms_instrument.lotsize)

\* C27: with no instrument record, or a record without lot size, an intent
\* that passes the margin check and the duplicate check is passed to the
\* store, and is Submitted when the store returns an order id.
C27_MissingMetadataAccepted ==
    (/\ oms_order # NoOrder
     /\ ~oms_instrument.found \/ oms_instrument.lotsize = 0
     /\ CheckMargin(oms_order.isbuy, oms_order.qty, oms_order.price, oms_cash) = ""
     /\ CheckDuplicateOrder(oms_order.isbuy, active_orders) = "")
    => /\ oms_order.calls = 1
       /\ oms_order.reply = "id" => oms_order.status \in {"Submitted", "Completed"}

\* C28: pre_trade_checks runs the margin check, then the position-limit
\* check, then the duplicate check, runs a check only when every earlier one
\* passed, and the rejection reason is that of the first check that failed.
C28_ChecksInOrder ==
    oms_order # NoOrder =>
        LET margin == CheckMargin(oms_order.isbuy, oms_order.qty, oms_order.price, oms_cash)
            position == CheckPositionLimits(oms_order.isbuy, oms_order.qty,
                                            oms_instrument, oms_position)
            duplicate == CheckDuplicateOrder(oms_order.isbuy, active_orders)
            n == Len(oms_order.checked)
        IN  /\ n \in 1..3
            /\ oms_order.checked = SubSeq(<<"margin", "position", "duplicate">>, 1, n)
            /\ n >= 2 <=> margin = ""
            /\ n = 3 <=> (margin = "" /\ position = "")
            /\ margin # "" => oms_order.reason = margin
            /\ (margin = "" /\ position # "") => oms_order.reason = position
            /\ (margin = "" /\ position = "" /\ duplicate # "") => oms_order.reason = duplicate

\* The margin check failed for an order the position-limit check would have
\* failed as well: only the margin check ran and its reason is reported.
C28_Witness ==
    /\ oms_order # NoOrder
    /\ oms_order.checked = <<"margin">>
    /\ oms_order.reason = "margin"
    /\ CheckPositionLimits(oms_order.isbuy, oms_order.qty, oms_instrument, oms_position) # ""

\* C29: the risk checks change no position, no cash and nothing in the
\* duplicate-signal table, and an order they reject has no placeOrder call
\* and no payload.
C29_ChecksHaveNoEffect ==
    [][/\ oms_cash' = oms_cash
       /\ oms_position' = oms_position
       /\ active_orders' = active_orders
       /\ oms_order'.reason \in {"margin", "TypeError", "AttributeError", "duplicate"} =>
              /\ oms_order'.calls = 0
              /\ oms_order'.params = NoOrder.params]_vars

\* One order was accepted after all three checks and a later one was
\* rejected by the margin check; the cash and the table are as at start.
C29_Witness ==
    /\ last_completed # NoSide
    /\ oms_order.reason = "margin"
    /\ oms_order.checked = <<"margin">>
    /\ active_orders = <<>>
    /\ oms_order.calls = 0

\* C36: every payload passed to store.place_order has ordertype LIMIT,
\* STOPLOSS_MARKET or STOPLOSS_LIMIT: never MARKET and never empty.
C36_PayloadTypeNeverMarketOrEmpty ==
    oms_order.calls = 1 =>
        oms_order.params.ordertype \in {"LIMIT", "STOPLOSS_MARKET", "STOPLOSS_LIMIT"}

(***************************************************************************)
(* Properties of both submission paths (SpecSubmit).                       *)
(***************************************************************************)

\* C35: when buy / sell returns - after a local rejection, a failed or
\* raising check, a failed payload construction, a failed or raising broker
\* call, or an accepted one - the order is Submitted or Rejected.
C35_ReturnsSubmittedOrRejected ==
    [][/\ \A r \in DOMAIN orders' :
              (\/ r \notin DOMAIN orders /\ inflight' = Idle
               \/ inflight # Idle /\ inflight.ref = r /\ inflight' = Idle)
              => orders'[r].status \in {"Submitted", "Rejected"}
       /\ (oms_order' # oms_order /\ ~OmsComplete)
              => oms_order'.status \in {"Submitted", "Rejected"}]_vars

\* A check raised an exception that is no rejection of its own
\* (AttributeError in check_position_limits) and buy / sell returned the
\* order Rejected, with no placeOrder call.
C35_Witness ==
    /\ oms_order.reason = "AttributeError"
    /\ oms_order.status = "Rejected"
    /\ oms_order.calls = 0

C7_BoundaryTickEmitsOneBar ==
    [][\A tick \in Ticks :
          (AggregateTick(tick) /\ tick.price # Missing /\ current_bar # NoBar) =>
              LET n == Len(window)
                  prices == {window[i].price : i \in 1..n}
                  sum[i \in 0..n] == IF i = 0 THEN 0 ELSE sum[i - 1] + window[i].volume
                  qty == IF tick.volume = Missing THEN 0 ELSE tick.volume
                  max(a, b) == IF a >= b THEN a ELSE b
                  min(a, b) == IF a <= b THEN a ELSE b
              IN  IF tick.dt >= (current_bar.datetime \div SecondsPerMinute) * SecondsPerMinute
                                + Compression * SecondsPerMinute
                  THEN /\ pushed' = 1
                       /\ lines'.open = window[1].price
                       /\ lines'.high \in prices /\ \A x \in prices : x <= lines'.high
                       /\ lines'.low \in prices /\ \A x \in prices : x >= lines'.low
                       /\ lines'.close = window[n].price
                       /\ lines'.volume = sum[n]
                       /\ current_bar'.open = tick.price
                       /\ current_bar'.high = tick.price
                       /\ current_bar'.low = tick.price
                       /\ current_bar'.close = tick.price
                       /\ current_bar'.volume = qty
                  ELSE /\ pushed' = 0
                       /\ lines' = lines
                       /\ current_bar'.open = current_bar.open
                       /\ current_bar'.high = max(current_bar.high, tick.price)
                       /\ current_bar'.low = min(current_bar.low, tick.price)
                       /\ current_bar'.close = tick.price
                       /\ current_bar'.volume = current_bar.volume + qty]_vars

\* Ticks 100, 105, 95 were aggregated and a boundary tick has just emitted
\* the bar {100, 105, 95, 95} and opened the next one.
C7_Witness ==
    /\ pushed = 1
    /\ lines.open = 100 /\ lines.high = 105 /\ lines.low = 95 /\ lines.close = 95
    /\ lines.volume = 2
    /\ Len(window) = 1
    /\ current_bar.datetime = 60
    /\ current_bar.open = 105

\* C18: the open bar always has high >= max(open, close) >= min(open, close)
\* >= low, and a tick that does not close the bar never lowers its volume.
C18_OpenBarOrdered ==
    [][current_bar' # NoBar =>
          LET max(a, b) == IF a >= b THEN a ELSE b
              min(a, b) == IF a <= b THEN a ELSE b
          IN  /\ current_bar'.high >= max(current_bar'.open, current_bar'.close)
              /\ min(current_bar'.open, current_bar'.close) >= current_bar'.low
              /\ (current_bar # NoBar /\ pushed' = 0) =>
                     /\ current_bar'.volume >= current_bar.volume
                     /\ current_bar'.open = current_bar.open]_vars

\* The open bar has seen 100, 105 and 95: it closes below its open, under its
\* high, and its volume has grown.
C18_Witness ==
    /\ current_bar # NoBar
    /\ current_bar.open = 100 /\ current_bar.high = 105
    /\ current_bar.low = 95 /\ current_bar.close = 95
    /\ current_bar.volume = 2
    /\ pushed = 0

\* C19: a tick emits at most one bar, and emits one only when a bar is open
\* and the tick is at or after the end of that bar's window; the emitted bar
\* is the bar of at least one tick.  The first tick emits nothing.
C19_EmitOnlyOnClose ==
    [][/\ pushed' \in {0, 1}
       /\ (pushed' = 1 \/ lines' # lines) =>
              /\ pushed' = 1
              /\ current_bar # NoBar
              /\ Len(window) >= 1
              /\ lines'.open = window[1].price
              /\ lines'.datetime = current_bar.datetime
              /\ \E tick \in Ticks :
                     /\ tick.price # Missing
                     /\ AggregateTick(tick)
                     /\ tick.dt >= (current_bar.datetime \div SecondsPerMinute) * SecondsPerMinute
                                       + Compression * SecondsPerMinute]_vars

\* A tick two windows after the open bar's has emitted that one bar: nothing
\* was emitted for the window in between, which had no tick.
C19_Witness ==
    /\ pushed = 1
    /\ lines.datetime = 0
    /\ current_bar.datetime = 120
    /\ Len(window) = 1

\* C30: at every configured interval of N minutes, a tick closes the open
\* bar exactly when its time is at or after the time of the bar's first tick
\* truncated to a multiple of N minutes, plus N minutes.
C30_BarsOnIntervalGrid ==
    [][\A tick \in Ticks :
          (AggregateTick(tick) /\ tick.price # Missing /\ current_bar # NoBar) =>
              LET interval == compression * SecondsPerMinute
              IN  pushed' = 1 <=>
                      tick.dt >= (current_bar.datetime \div interval) * interval + interval]_vars

\* C37: each emitted bar starts later than the bar emitted before it,
\* whatever the order of the ticks' timestamps and at every configured
\* timeframe.
C37_BarStartsIncrease ==
    [][(pushed' = 1 /\ lines # NoBar) => lines'.datetime > lines.datetime]_vars

\* C20: once a bar has been emitted, no later tick and no later emission
\* changes it.
C20_EmittedBarsImmutable == [][lines # NoBar => lines' = lines]_vars

(***************************************************************************)
(* Properties of the cancel requests (SpecCancel).                         *)
(***************************************************************************)

\* C10: a cancel request, whatever the broker replies, leaves the status of
\* every order and the order tables as they were.
C10_CancelOnlySends ==
    [][\A ref \in 1..MaxAbOrders, reply \in CancelReplies \cup {NoReply} :
          /\ Cancel(ref, reply) => UNCHANGED <<orders, bt_order_map, broker_order_map>>
          /\ AbCancel(ref, reply) => UNCHANGED <<ab_created, ab_orders>>]_vars

(***************************************************************************)
(* Properties of the session broker's submissions (SpecAB).                *)
(***************************************************************************)

\* C14: the payload sent for an accepted order carries the wire type of its
\* order kind: Market -> MARKET, Limit -> LIMIT, Stop -> STOPLOSS_MARKET,
\* StopLimit -> STOPLOSS_LIMIT.
C14_PayloadWireType ==
    \A r \in DOMAIN ab_created :
        ab_created[r].status = "Submitted" =>
            ab_created[r].sent.ordertype =
                (CASE ab_created[r].ordtype = "Market" -> "MARKET"
                   [] ab_created[r].ordtype = "Limit" -> "LIMIT"
                   [] ab_created[r].ordtype = "Stop" -> "STOPLOSS_MARKET"
                   [] ab_created[r].ordtype = "StopLimit" -> "STOPLOSS_LIMIT"
                   [] OTHER -> "")

(***************************************************************************)
(* Properties of the two threads on the position / cash table              *)
(* (SpecThreads).                                                          *)
(***************************************************************************)

\* C21: updates and reads of the position / cash table are mutually
\* exclusive: the strategy thread is never inside getvalue's read of the
\* table while the websocket thread is inside _update_fill's update of it.
C21_LedgerMutuallyExclusive == ~(ws_pc # "idle" /\ st_pc # "idle")

(***************************************************************************)
(* Properties of the session store (SpecStore).                            *)
(***************************************************************************)

\* C38: with no stop() and no refresh failure in between, every AngelStore()
\* returns the same instance and at most one login establishes a session.
C38_OneInstanceOneLogin ==
    ~refresh_failed => (Cardinality(instances) <= 1 /\ logins <= 1)

\* C39: when get_session() has returned normally the store was connected at
\* the return and the object returned is the authenticated session.
C39_ReturnedSessionConnected ==
    returned.kind = "returned" =>
        (returned.connected /\ returned.session.authenticated)

====
